---- MODULE Spec2Model ----
(***************************************************************************)
(* Rendering pipeline of tui_movie.py: the gradient background, the three  *)
(* drawing primitives and the rain writes on the pixel canvas, the braille *)
(* downsampler and the escape-code serializer.                             *)
(*                                                                         *)
(* A colour is a triple <<r, g, b>>; Python's None is the empty tuple.     *)
(* A pixel or index pair is <<y, x>> (row, column), as the code indexes.   *)
(***************************************************************************)
EXTENDS Integers, Sequences, FiniteSets

VARIABLES
    \* gradient fill of build_frame
    g_height, g_width, g_y, g_rows,
    \* draw_line, one loop iteration at a time
    lpc, l_args, l_st, visited, l_lit,
    \* the pixel canvas and the last primitive call on it
    cpc, c_width, c_height, fg_mask, fg_color_map, bg_color_map,
    last_op, prev_mask, prev_color, raw_writes, crashed,
    \* braille_from_pixels: its arguments and its result
    dpc, d_width, d_height, d_bg, d_mask, d_color, out_width, out_height, cells,
    \* render_frame: its argument, its result, and last_fg, last_bg as each
    \* row found them
    rpc, buffer, frame_text, row_starts

None == << >>

Max2(a, b) == IF a >= b THEN a ELSE b
Min2(a, b) == IF a <= b THEN a ELSE b
Abs(a) == IF a >= 0 THEN a ELSE -a

\* Python's range(a, b) as a sequence.
Range(a, b) == [i \in 1..Max2(0, b - a) |-> a + i - 1]

(***************************************************************************)
(* Gradient background                                                     *)
(***************************************************************************)
MaxGradHeight == 18
MaxGradWidth == 2

top == <<15, 20, 35>>
bottom == <<5, 10, 18>>

\* int(): truncation toward zero of the rational n / d, d > 0.
Trunc(n, d) == IF n >= 0 THEN n \div d ELSE -((-n) \div d)

\* A mutant of lerp: rounds to the nearest integer instead of truncating.
lerp_rounds(a, b, t) == Trunc(2 * (a * t[2] + (b - a) * t[1]) + t[2], 2 * t[2])

\* lerp(a, b, t) with t the fraction t[1] / t[2].  The code evaluates
\* a + (b - a) * t in binary floating point; for the arguments gradient_color
\* passes the result of int() is that of exact arithmetic: a non-integral
\* exact value lies at least 1/t[2] from an integer, and an integral one
\* arises only for t a multiple of 1/10 or 1/17, where the floating-point
\* result is that integer.
lerp(a, b, t) == Trunc(a * t[2] + (b - a) * t[1], t[2])

gradient_color(y, height) ==
    LET t == <<y, Max2(1, height - 1)>>
    IN  <<lerp(top[1], bottom[1], t), lerp(top[2], bottom[2], t), lerp(top[3], bottom[3], t)>>

\* One pass of the outer loop of build_frame's canvas construction: the
\* row of background colours for row y.
GradientRowOf(y, height, width) == [x \in 1..width |-> gradient_color(y, height)]

(***************************************************************************)
(* draw_line                                                               *)
(***************************************************************************)
MaxCoord == 5

LineStart(x0, y0, x1, y1) ==
    LET dx == Abs(x1 - x0)
        dy == -Abs(y1 - y0)
    IN  [x |-> x0, y |-> y0, err |-> dx + dy, dx |-> dx, dy |-> dy,
         sx |-> IF x0 < x1 THEN 1 ELSE -1,
         sy |-> IF y0 < y1 THEN 1 ELSE -1]

LineAtEnd(st, x1, y1) == st.x = x1 /\ st.y = y1

\* A mutant of LineAdvance: the second test reads err after the x step
\* has changed it.
LineAdvanceStale(st) ==
    LET e2 == 2 * st.err
        stepx == e2 >= st.dy
        stepy == 2 * (st.err + (IF stepx THEN st.dy ELSE 0)) <= st.dx
    IN  [st EXCEPT !.err = st.err + (IF stepx THEN st.dy ELSE 0) + (IF stepy THEN st.dx ELSE 0),
                   !.x = st.x + (IF stepx THEN st.sx ELSE 0),
                   !.y = st.y + (IF stepy THEN st.sy ELSE 0)]

\* The body of the loop after the break test.  The second test reads e2,
\* computed before err changes.
LineAdvance(st) ==
    LET e2 == 2 * st.err
        stepx == e2 >= st.dy
        stepy == e2 <= st.dx
    IN  [st EXCEPT !.err = st.err + (IF stepx THEN st.dy ELSE 0) + (IF stepy THEN st.dx ELSE 0),
                   !.x = st.x + (IF stepx THEN st.sx ELSE 0),
                   !.y = st.y + (IF stepy THEN st.sy ELSE 0)]

\* The guard of the write in draw_line.
LineInBounds(x, y, width, height) == 0 <= x /\ x < width /\ 0 <= y /\ y < height

RECURSIVE LineVisits(_, _, _)
\* The points <<y, x>> the loop of draw_line reaches, in order.
LineVisits(st, x1, y1) ==
    IF LineAtEnd(st, x1, y1) THEN << <<st.y, st.x>> >>
    ELSE << <<st.y, st.x>> >> \o LineVisits(LineAdvance(st), x1, y1)

(***************************************************************************)
(* The canvas and the primitives                                           *)
(***************************************************************************)
MaxSide == 3
MaxArea == 4
MaxRadius == 2
MaxFrame == 3

rain_color == <<120, 170, 220>>
Palette == {rain_color, <<200, 205, 215>>}

Pixels(width, height) == (0..height - 1) \X (0..width - 1)

\* A list subscript: seq[i] with len(seq) = n.  A negative i counts from
\* the end; -1 stands for IndexError.
PyIndex(i, n) ==
    IF 0 <= i /\ i < n THEN i
    ELSE IF -n <= i /\ i < 0 THEN i + n
    ELSE -1

\* A mutant of SetPixel: a lit pixel keeps the colour it has.
SetPixelFirstWins(cv, y, x, color) ==
    IF cv.err THEN cv
    ELSE LET yy == PyIndex(y, cv.h)
             xx == IF yy = -1 THEN -1 ELSE PyIndex(x, cv.w)
         IN  IF yy = -1 \/ xx = -1
             THEN [cv EXCEPT !.err = TRUE, !.raw = @ \cup {<<y, x>>}]
             ELSE [cv EXCEPT !.mask[<<yy, xx>>] = TRUE,
                             !.color[<<yy, xx>>] = IF cv.mask[<<yy, xx>>] THEN @ ELSE color,
                             !.raw = @ \cup {<<y, x>>}]

\* A mutant of SetPixel: the mask is set and the colour is not.
SetPixelMaskOnly(cv, y, x, color) ==
    IF cv.err THEN cv
    ELSE LET yy == PyIndex(y, cv.h)
             xx == IF yy = -1 THEN -1 ELSE PyIndex(x, cv.w)
         IN  IF yy = -1 \/ xx = -1
             THEN [cv EXCEPT !.err = TRUE, !.raw = @ \cup {<<y, x>>}]
             ELSE [cv EXCEPT !.mask[<<yy, xx>>] = TRUE, !.raw = @ \cup {<<y, x>>}]

\* fg_mask[y][x] = True; fg_color[y][x] = color on the canvas cv.  cv.raw
\* collects the subscripts used; an IndexError ends the call (cv.err).
SetPixel(cv, y, x, color) ==
    IF cv.err THEN cv
    ELSE LET yy == PyIndex(y, cv.h)
             xx == IF yy = -1 THEN -1 ELSE PyIndex(x, cv.w)
         IN  IF yy = -1 \/ xx = -1
             THEN [cv EXCEPT !.err = TRUE, !.raw = @ \cup {<<y, x>>}]
             ELSE [cv EXCEPT !.mask[<<yy, xx>>] = TRUE,
                             !.color[<<yy, xx>>] = color,
                             !.raw = @ \cup {<<y, x>>}]

RECURSIVE WriteAll(_, _, _)
WriteAll(cv, pts, color) ==
    IF pts = << >> THEN cv
    ELSE WriteAll(SetPixel(cv, Head(pts)[1], Head(pts)[2], color), Tail(pts), color)

\* The pairs <<ys[i], xs[j]>> in row-major order: for y in ys: for x in xs.
Grid(ys, xs) ==
    [i \in 1..(Len(ys) * Len(xs)) |->
        <<ys[((i - 1) \div Len(xs)) + 1], xs[((i - 1) % Len(xs)) + 1]>>]

\* len(fg_mask[0]) if height else 0
WidthOf(cv) == IF cv.h # 0 THEN cv.w ELSE 0

\* A mutant of draw_rect: the lower bounds are not clipped to 0.
draw_rect_unclipped(cv, x0, y0, x1, y1, color) ==
    WriteAll(cv, Grid(Range(y0, Min2(cv.h, y1)), Range(x0, Min2(WidthOf(cv), x1))), color)

draw_rect(cv, x0, y0, x1, y1, color) ==
    LET height == cv.h
        width == WidthOf(cv)
    IN  WriteAll(cv, Grid(Range(Max2(0, y0), Min2(height, y1)),
                          Range(Max2(0, x0), Min2(width, x1))), color)

\* dx * dx + dy * dy <= 1.0 with dx = (x - cx) / max(1, rx) and
\* dy = (y - cy) / max(1, ry), cleared of denominators.
EllipseTest(x, y, cx, cy, rx, ry) ==
    LET mx == Max2(1, rx)
        my == Max2(1, ry)
    IN  (x - cx) * (x - cx) * my * my + (y - cy) * (y - cy) * mx * mx <= mx * mx * my * my

draw_ellipse(cv, cx, cy, rx, ry, color) ==
    LET height == cv.h
        width == WidthOf(cv)
        Keep(p) == /\ 0 <= p[1] /\ p[1] < height
                   /\ 0 <= p[2] /\ p[2] < width
                   /\ EllipseTest(p[2], p[1], cx, cy, rx, ry)
    IN  WriteAll(cv, SelectSeq(Grid(Range(cy - ry, cy + ry + 1), Range(cx - rx, cx + rx + 1)), Keep),
                 color)

draw_line(cv, x0, y0, x1, y1, color) ==
    LET height == cv.h
        width == WidthOf(cv)
        Keep(p) == LineInBounds(p[2], p[1], width, height)
    IN  WriteAll(cv, SelectSeq(LineVisits(LineStart(x0, y0, x1, y1), x1, y1), Keep), color)

\* The rain loop of build_frame: for x, for y in range(0, hi_height, 2),
\* for streak in range(3).
RainStreaks(cv, frame) ==
    LET rain_speed == 6
        ny == (cv.h + 1) \div 2
        Cand == [i \in 1..(cv.w * ny * 3) |->
                    LET x == (i - 1) \div (ny * 3)
                        y == 2 * (((i - 1) % (ny * 3)) \div 3)
                        streak == (i - 1) % 3
                    IN  <<y, x, y + streak>>]
        Keep(c) == /\ (c[2] * 11 + c[1] * 7 + frame * rain_speed) % 29 = 0
                   /\ 0 <= c[3] /\ c[3] < cv.h
        hit == SelectSeq(Cand, Keep)
    IN  WriteAll(cv, [i \in 1..Len(hit) |-> <<hit[i][3], hit[i][2]>>], rain_color)

NoOp == [kind |-> "none", a |-> 0, b |-> 0, c |-> 0, d |-> 0, color |-> None]

Apply(op, cv) ==
    CASE op.kind = "rect" -> draw_rect(cv, op.a, op.b, op.c, op.d, op.color)
      [] op.kind = "ellipse" -> draw_ellipse(cv, op.a, op.b, op.c, op.d, op.color)
      [] op.kind = "line" -> draw_line(cv, op.a, op.b, op.c, op.d, op.color)
      [] op.kind = "rain" -> RainStreaks(cv, op.a)
      [] OTHER -> cv

(***************************************************************************)
(* braille_from_pixels                                                     *)
(***************************************************************************)
MaxCanvasW == 2
MaxCanvasH == 4

\* (dx, dy, bit)
dot_map_by_column ==
    << <<0, 0, 0>>, <<0, 1, 1>>, <<0, 2, 2>>, <<0, 3, 3>>,
       <<1, 0, 4>>, <<1, 1, 5>>, <<1, 2, 6>>, <<1, 3, 7>> >>

dot_map ==
    << <<0, 0, 0>>, <<0, 1, 1>>, <<0, 2, 2>>, <<1, 0, 3>>,
       <<1, 1, 4>>, <<1, 2, 5>>, <<0, 3, 6>>, <<1, 3, 7>> >>

RECURSIVE Pow2(_)
Pow2(n) == IF n = 0 THEN 1 ELSE 2 * Pow2(n - 1)

\* bits | (1 << bit)
BitOr(bits, bit) == IF (bits \div Pow2(bit)) % 2 = 1 THEN bits ELSE bits + Pow2(bit)

AddColor(acc, color) == <<acc[1] + color[1], acc[2] + color[2], acc[3] + color[3]>>

Cell(ch, fg, bg) == [ch |-> ch, fg |-> fg, bg |-> bg]

Acc0 == [bits |-> 0, fg_acc |-> <<0, 0, 0>>, fg_count |-> 0, bg_acc |-> <<0, 0, 0>>, bg_count |-> 0]

\* A mutant of DotStep: a sub-position outside the canvas counts as a black
\* background pixel.
DotStepZeroFill(acc, cvs, x, y, dot) ==
    LET px == x * 2 + dot[1]
        py == y * 4 + dot[2]
    IN  IF py >= cvs.h \/ px >= cvs.w THEN [acc EXCEPT !.bg_count = @ + 1]
        ELSE LET bg == cvs.bg[<<py, px>>]
                 a1 == [acc EXCEPT !.bg_acc = AddColor(@, bg), !.bg_count = @ + 1]
                 color == IF cvs.color[<<py, px>>] # None THEN cvs.color[<<py, px>>] ELSE bg
             IN  IF cvs.mask[<<py, px>>]
                 THEN [a1 EXCEPT !.bits = BitOr(@, dot[3]),
                                 !.fg_acc = AddColor(@, color),
                                 !.fg_count = @ + 1]
                 ELSE a1

\* The body of the loop over dot_map for the cell (x, y).  cvs.h is
\* len(bg_color_map) and cvs.w is len(bg_color_map[0]), read only when
\* py < cvs.h.
DotStep(acc, cvs, x, y, dot) ==
    LET px == x * 2 + dot[1]
        py == y * 4 + dot[2]
    IN  IF py >= cvs.h \/ px >= cvs.w THEN acc
        ELSE LET bg == cvs.bg[<<py, px>>]
                 a1 == [acc EXCEPT !.bg_acc = AddColor(@, bg), !.bg_count = @ + 1]
                 color == IF cvs.color[<<py, px>>] # None THEN cvs.color[<<py, px>>] ELSE bg
             IN  IF cvs.mask[<<py, px>>]
                 THEN [a1 EXCEPT !.bits = BitOr(@, dot[3]),
                                 !.fg_acc = AddColor(@, color),
                                 !.fg_count = @ + 1]
                 ELSE a1

RECURSIVE DotFold(_, _, _, _, _)
DotFold(acc, cvs, x, y, i) ==
    IF i > Len(dot_map) THEN acc
    ELSE DotFold(DotStep(acc, cvs, x, y, dot_map[i]), cvs, x, y, i + 1)

Blank == 32

\* The cell made from the sums of one block.
CellOf(acc) ==
    LET bg_color_val ==
            IF acc.bg_count # 0
            THEN <<acc.bg_acc[1] \div acc.bg_count, acc.bg_acc[2] \div acc.bg_count,
                   acc.bg_acc[3] \div acc.bg_count>>
            ELSE <<0, 0, 0>>
    IN  IF acc.fg_count # 0
        THEN Cell(10240 + acc.bits,
                  <<acc.fg_acc[1] \div acc.fg_count, acc.fg_acc[2] \div acc.fg_count,
                    acc.fg_acc[3] \div acc.fg_count>>,
                  bg_color_val)
        ELSE Cell(Blank, None, bg_color_val)

\* The grid of cells: rows 1..height of columns 1..width.
braille_from_pixels(cvs, width, height) ==
    [y \in 1..height |-> [x \in 1..width |-> CellOf(DotFold(Acc0, cvs, x - 1, y - 1, 1))]]

(***************************************************************************)
(* render_frame                                                            *)
(*                                                                         *)
(* The text is a sequence of tokens: the escape sequence ESC [ p1;..;pn m  *)
(* is [esc |-> TRUE, p |-> <<p1, .., pn>>] and a character is              *)
(* [esc |-> FALSE, p |-> <<codepoint>>].                                   *)
(***************************************************************************)
MaxRows == 2
MaxCells == 4

Sgr(p) == [esc |-> TRUE, p |-> p]
Char(c) == [esc |-> FALSE, p |-> <<c>>]

fg_color(rgb) == Sgr(<<38, 2, rgb[1], rgb[2], rgb[3]>>)
bg_color(rgb) == Sgr(<<48, 2, rgb[1], rgb[2], rgb[3]>>)
reset_colors == Sgr(<<0>>)
\* f"{ESC}[39m"
default_fg == Sgr(<<39>>)
Newline == Char(10)

\* A mutant of RenderCell: the colours are set at every cell.
RenderCellEvery(cell, st) ==
    [st EXCEPT !.line_parts = @ \o << IF cell.bg = None THEN reset_colors ELSE bg_color(cell.bg),
                                      IF cell.fg = None THEN default_fg ELSE fg_color(cell.fg),
                                      Char(cell.ch) >>,
               !.last_bg = cell.bg,
               !.last_fg = cell.fg]

\* The body of the loop over the cells of a row.
RenderCell(cell, st) ==
    LET bg_part == IF cell.bg # st.last_bg
                   THEN << IF cell.bg = None THEN reset_colors ELSE bg_color(cell.bg) >>
                   ELSE << >>
        fg_part == IF cell.fg # st.last_fg
                   THEN << IF cell.fg = None THEN default_fg ELSE fg_color(cell.fg) >>
                   ELSE << >>
    IN  [st EXCEPT !.line_parts = @ \o bg_part \o fg_part \o <<Char(cell.ch)>>,
                   !.last_bg = IF cell.bg # st.last_bg THEN cell.bg ELSE @,
                   !.last_fg = IF cell.fg # st.last_fg THEN cell.fg ELSE @]

RECURSIVE RenderCells(_, _, _)
RenderCells(row, i, st) ==
    IF i > Len(row) THEN st ELSE RenderCells(row, i + 1, RenderCell(row[i], st))

\* A mutant of RowEnd: last_fg and last_bg are carried into the next row.
RowEndKeeps(st) ==
    [st EXCEPT !.lines = Append(@, st.line_parts \o <<reset_colors>>)]

\* The end of the loop over the rows: the reset, the join of the line, and
\* last_fg = None, last_bg = None.
RowEnd(st) ==
    [st EXCEPT !.lines = Append(@, st.line_parts \o <<reset_colors>>),
               !.last_fg = None,
               !.last_bg = None]

RECURSIVE RenderRows(_, _, _)
\* The loop over the rows; st.starts records last_fg and last_bg where
\* line_parts = [] is executed.
RenderRows(buf, i, st) ==
    IF i > Len(buf) THEN st
    ELSE RenderRows(buf, i + 1,
            RowEnd(RenderCells(buf[i], 1,
                [st EXCEPT !.line_parts = << >>,
                           !.starts = Append(@, <<st.last_fg, st.last_bg>>)])))

RECURSIVE Join(_, _)
\* sep.join(lines)
Join(lines, sep) ==
    IF lines = << >> THEN << >>
    ELSE IF Len(lines) = 1 THEN lines[1]
    ELSE lines[1] \o <<sep>> \o Join(Tail(lines), sep)

render_frame(buf) ==
    LET st == RenderRows(buf, 1, [lines |-> << >>, line_parts |-> << >>, starts |-> << >>,
                                  last_fg |-> None, last_bg |-> None])
    IN  [text |-> Join(st.lines, Newline), starts |-> st.starts]

(***************************************************************************)
(* State machines                                                          *)
(***************************************************************************)
gvars == <<g_height, g_width, g_y, g_rows>>
lvars == <<lpc, l_args, l_st, visited, l_lit>>
cvars == <<cpc, c_width, c_height, fg_mask, fg_color_map, bg_color_map,
           last_op, prev_mask, prev_color, raw_writes, crashed>>
dvars == <<dpc, d_width, d_height, d_bg, d_mask, d_color, out_width, out_height, cells>>
rvars == <<rpc, buffer, frame_text, row_starts>>
vars == <<gvars, lvars, cvars, dvars, rvars>>

GradientOff == g_height = 0 /\ g_width = 0 /\ g_y = 0 /\ g_rows = << >>
LineOff == lpc = "off" /\ l_args = <<0, 0, 0, 0>> /\ l_st = LineStart(0, 0, 0, 0)
           /\ visited = << >> /\ l_lit = {}
CanvasOff == /\ cpc = "off" /\ c_width = 0 /\ c_height = 0
             /\ fg_mask = << >> /\ fg_color_map = << >> /\ bg_color_map = << >>
             /\ last_op = NoOp /\ prev_mask = << >> /\ prev_color = << >>
             /\ raw_writes = {} /\ crashed = FALSE

DownOff == /\ dpc = "off" /\ d_width = 0 /\ d_height = 0
           /\ d_bg = << >> /\ d_mask = << >> /\ d_color = << >>
           /\ out_width = 0 /\ out_height = 0 /\ cells = << >>

RenderOff == rpc = "off" /\ buffer = << >> /\ frame_text = << >> /\ row_starts = << >>

\* ---- the gradient fill: build_frame's loop over the canvas rows ----
GradientEntry ==
    /\ g_height \in 0..MaxGradHeight
    /\ g_width \in 0..MaxGradWidth
    /\ g_y = 0
    /\ g_rows = << >>

GradientRow ==
    /\ g_y < g_height
    /\ g_rows' = Append(g_rows, GradientRowOf(g_y, g_height, g_width))
    /\ g_y' = g_y + 1
    /\ UNCHANGED <<g_height, g_width, lvars, cvars, dvars, rvars>>

InitGradient == GradientEntry /\ LineOff /\ CanvasOff /\ DownOff /\ RenderOff

SpecGradient == InitGradient /\ [][GradientRow]_vars

\* ---- draw_line, iteration by iteration, on a canvas covering ----
\* ---- 0..MaxCoord in both directions                          ----
LineSide == MaxCoord + 1

LineEntry ==
    /\ lpc = "loop"
    /\ l_args \in (-MaxCoord..MaxCoord) \X (-MaxCoord..MaxCoord)
                  \X (-MaxCoord..MaxCoord) \X (-MaxCoord..MaxCoord)
    /\ l_st = LineStart(l_args[1], l_args[2], l_args[3], l_args[4])
    /\ visited = << >>
    /\ l_lit = {}

\* One pass of the while loop: the guarded write, the break test, the step.
LineIter ==
    /\ lpc = "loop"
    /\ visited' = Append(visited, <<l_st.y, l_st.x>>)
    /\ l_lit' = IF LineInBounds(l_st.x, l_st.y, LineSide, LineSide)
                THEN l_lit \cup {<<l_st.y, l_st.x>>} ELSE l_lit
    /\ IF LineAtEnd(l_st, l_args[3], l_args[4])
       THEN lpc' = "done" /\ l_st' = l_st
       ELSE lpc' = "loop" /\ l_st' = LineAdvance(l_st)
    /\ UNCHANGED <<l_args, gvars, cvars, dvars, rvars>>

InitLine == LineEntry /\ GradientOff /\ CanvasOff /\ DownOff /\ RenderOff

SpecLine == InitLine /\ [][LineIter]_vars

\* ---- the canvas under the primitives ----
\* <<width, height>>; a canvas without rows has no columns.
Dims == {d \in (0..MaxSide) \X (0..MaxSide) : d[1] * d[2] <= MaxArea /\ (d[2] = 0 => d[1] = 0)}

FreshMask(width, height) == [p \in Pixels(width, height) |-> FALSE]
FreshColor(width, height) == [p \in Pixels(width, height) |-> None]
Background(width, height) == [p \in Pixels(width, height) |-> gradient_color(p[1], height)]

Init ==
    /\ cpc = "idle"
    /\ \E d \in Dims : c_width = d[1] /\ c_height = d[2]
    /\ fg_mask = FreshMask(c_width, c_height)
    /\ fg_color_map = FreshColor(c_width, c_height)
    /\ bg_color_map = Background(c_width, c_height)
    /\ last_op = NoOp
    /\ prev_mask = fg_mask
    /\ prev_color = fg_color_map
    /\ raw_writes = {}
    /\ crashed = FALSE
    /\ GradientOff /\ LineOff /\ DownOff /\ RenderOff

Canvas == [w |-> c_width, h |-> c_height, mask |-> fg_mask, color |-> fg_color_map,
           raw |-> {}, err |-> FALSE]

\* A call of a primitive on the canvas, to its return or its exception.
Call(op) ==
    \E r \in {Apply(op, Canvas)} :
        /\ cpc' = "returned"
        /\ fg_mask' = r.mask
        /\ fg_color_map' = r.color
        /\ raw_writes' = r.raw
        /\ crashed' = r.err
        /\ last_op' = op
        /\ prev_mask' = fg_mask
        /\ prev_color' = fg_color_map
        /\ UNCHANGED <<c_width, c_height, bg_color_map, gvars, lvars, dvars, rvars>>

CallRect ==
    /\ cpc = "idle"
    /\ \E x0 \in -1..c_width, y0 \in -1..c_height, x1 \in 0..c_width + 1, y1 \in 0..c_height + 1,
       color \in Palette :
        Call([kind |-> "rect", a |-> x0, b |-> y0, c |-> x1, d |-> y1, color |-> color])

CallEllipse ==
    /\ cpc = "idle"
    /\ \E cx \in -1..c_width, cy \in -1..c_height, rx \in -1..MaxRadius, ry \in -1..MaxRadius,
       color \in Palette :
        Call([kind |-> "ellipse", a |-> cx, b |-> cy, c |-> rx, d |-> ry, color |-> color])

CallLine ==
    /\ cpc = "idle"
    /\ \E x0 \in -1..c_width, y0 \in -1..c_height, x1 \in -1..c_width, y1 \in -1..c_height,
       color \in Palette :
        Call([kind |-> "line", a |-> x0, b |-> y0, c |-> x1, d |-> y1, color |-> color])

Rain ==
    /\ cpc = "idle"
    /\ \E frame \in 0..MaxFrame :
        Call([kind |-> "rain", a |-> frame, b |-> 0, c |-> 0, d |-> 0, color |-> rain_color])

\* The caller goes on to its next drawing call.
Return ==
    /\ cpc = "returned"
    /\ ~crashed
    /\ cpc' = "idle"
    /\ last_op' = NoOp
    /\ prev_mask' = fg_mask
    /\ prev_color' = fg_color_map
    /\ raw_writes' = {}
    /\ UNCHANGED <<c_width, c_height, fg_mask, fg_color_map, bg_color_map, crashed, gvars, lvars, dvars, rvars>>

Next == CallRect \/ CallEllipse \/ CallLine \/ Rain \/ Return

Spec == Init /\ [][Next]_vars

\* ---- braille_from_pixels on a canvas of any content ----
FgPool == << <<200, 205, 215>>, None, <<255, 235, 160>> >>
BgPool == << <<15, 20, 35>>, <<8, 10, 14>>, <<5, 10, 18>> >>

\* The arguments: a canvas of up to MaxCanvasW x MaxCanvasH pixels with any
\* mask, colours that differ from pixel to pixel (some lit pixels without a
\* foreground colour), and a grid one cell wider and higher than the canvas
\* fills, so that blocks lie partly and wholly outside it.
DownEntry ==
    /\ dpc = "call"
    /\ d_width \in 0..MaxCanvasW
    /\ d_height \in 0..MaxCanvasH
    /\ d_height = 0 => d_width = 0
    /\ d_mask \in [Pixels(d_width, d_height) -> BOOLEAN]
    /\ \E shift \in 0..2 :
          /\ d_color = [p \in Pixels(d_width, d_height) |-> FgPool[((2 * p[1] + p[2] + shift) % 3) + 1]]
          /\ d_bg = [p \in Pixels(d_width, d_height) |-> BgPool[((p[1] + p[2] + 2 * shift) % 3) + 1]]
    /\ out_width = (d_width \div 2) + 1
    /\ out_height = (d_height \div 4) + 1
    /\ cells = << >>

Downsample ==
    /\ dpc = "call"
    /\ dpc' = "done"
    /\ cells' = braille_from_pixels([w |-> d_width, h |-> d_height, bg |-> d_bg,
                                     mask |-> d_mask, color |-> d_color],
                                    out_width, out_height)
    /\ UNCHANGED <<d_width, d_height, d_bg, d_mask, d_color, out_width, out_height,
                   gvars, lvars, cvars, rvars>>

InitDown == DownEntry /\ GradientOff /\ LineOff /\ CanvasOff /\ RenderOff

SpecDown == InitDown /\ [][Downsample]_vars

\* ---- render_frame on a grid of cells ----
FgSet == {None, <<200, 205, 215>>, <<255, 235, 160>>}
BgSet == {None, <<15, 20, 35>>, <<8, 10, 14>>}

\* The cells: any foreground and background, absent ones included; a cell
\* without foreground is a space, as braille_from_pixels makes it.
Cells == {Cell(IF fg = None THEN Blank ELSE 10240 + (fg[1] % 256), fg, bg) : fg \in FgSet, bg \in BgSet}

\* <<height, width>> of the grids: up to MaxRows rows and MaxCells cells.
GridDims == {d \in (0..MaxRows) \X (0..MaxCells) : d[1] * d[2] <= MaxCells /\ (d[1] = 0 => d[2] = 0)}

RenderEntry ==
    /\ rpc = "call"
    /\ \E d \in GridDims : buffer \in [1..d[1] -> [1..d[2] -> Cells]]
    /\ frame_text = << >>
    /\ row_starts = << >>

Render ==
    /\ rpc = "call"
    /\ rpc' = "done"
    /\ \E r \in {render_frame(buffer)} :
          /\ frame_text' = r.text
          /\ row_starts' = r.starts
    /\ UNCHANGED <<buffer, gvars, lvars, cvars, dvars>>

InitRender == RenderEntry /\ GradientOff /\ LineOff /\ CanvasOff /\ DownOff

SpecRender == InitRender /\ [][Render]_vars

(***************************************************************************)
(* Claims about the primitives                                             *)
(***************************************************************************)
Primitives == {"rect", "ellipse", "line"}

\* The pixel p = <<y, x>> belongs to the shape the call op asks for.
InShape(p, op) ==
    CASE op.kind = "rect" -> op.a <= p[2] /\ p[2] < op.c /\ op.b <= p[1] /\ p[1] < op.d
      [] op.kind = "ellipse" ->
            /\ Abs(p[2] - op.a) <= op.c
            /\ Abs(p[1] - op.b) <= op.d
            /\ EllipseTest(p[2], p[1], op.a, op.b, op.c, op.d)
      [] op.kind = "line" ->
            LET pts == LineVisits(LineStart(op.a, op.b, op.c, op.d), op.c, op.d)
            IN  \E i \in 1..Len(pts) : pts[i] = p
      [] OTHER -> FALSE

Changed(p) == fg_mask[p] # prev_mask[p] \/ fg_color_map[p] # prev_color[p]

\* C4: a call of draw_rect, draw_ellipse or draw_line with coordinates inside
\* or outside the canvas raises no error, subscripts the arrays only with
\* 0 <= y < height and 0 <= x < width, and writes or changes only pixels
\* whose own coordinate belongs to the requested shape.
C4_BoundsSafety ==
    (cpc = "returned" /\ last_op.kind \in Primitives) =>
        /\ ~crashed
        /\ \A p \in raw_writes :
              /\ 0 <= p[1] /\ p[1] < c_height
              /\ 0 <= p[2] /\ p[2] < c_width
              /\ InShape(p, last_op)
        /\ \A p \in Pixels(c_width, c_height) : Changed(p) => InShape(p, last_op)

\* A line that starts left of or above the canvas and lights a pixel of it.
C4_Witness ==
    /\ cpc = "returned" /\ last_op.kind = "line"
    /\ (last_op.a < 0 \/ last_op.b < 0)
    /\ raw_writes # {}
    /\ \E p \in Pixels(c_width, c_height) : Changed(p)

\* C6: the same call made once more leaves mask and foreground as they
\* are, and every canvas pixel of the shape, whatever it held before, is lit
\* with exactly the colour of this call.
C6_IdempotentLastWins ==
    (cpc = "returned" /\ last_op.kind \in Primitives) =>
        /\ \A r \in {Apply(last_op, Canvas)} : r.mask = fg_mask /\ r.color = fg_color_map
        /\ \A p \in Pixels(c_width, c_height) :
              InShape(p, last_op) => fg_mask[p] /\ fg_color_map[p] = last_op.color

\* A rectangle drawn over a pixel that an earlier call lit in the other colour.
C6_Witness ==
    /\ cpc = "returned" /\ last_op.kind = "rect"
    /\ \E p \in Pixels(c_width, c_height) :
          /\ prev_mask[p] /\ prev_color[p] # last_op.color
          /\ InShape(p, last_op)
          /\ fg_color_map[p] = last_op.color

\* C9: on a canvas that started with the mask all false and the foreground
\* all absent, a pixel is lit exactly when it has a foreground colour, no
\* call clears a lit pixel, and the background is the one the canvas was
\* created with.
C9_MaskInvariant ==
    /\ \A p \in Pixels(c_width, c_height) :
          /\ fg_mask[p] <=> fg_color_map[p] # None
          /\ prev_mask[p] => fg_mask[p]
    /\ cpc # "off" => bg_color_map = Background(c_width, c_height)

\* Rain falling on a canvas the primitives have drawn on, some pixels
\* still dark.
C9_Witness ==
    /\ cpc = "returned" /\ last_op.kind = "rain"
    /\ \E p \in Pixels(c_width, c_height) : prev_mask[p] /\ prev_color[p] # rain_color
    /\ \E p \in Pixels(c_width, c_height) : ~prev_mask[p] /\ fg_mask[p]
    /\ \E p \in Pixels(c_width, c_height) : ~fg_mask[p]

(***************************************************************************)
(* Claims about the gradient and about draw_line                           *)
(***************************************************************************)
\* v is a + (b - a) * y / d cut to an integer, for a non-negative quotient.
IsTruncOf(v, a, b, y, d) ==
    /\ v * d <= a * d + (b - a) * y
    /\ a * d + (b - a) * y < (v + 1) * d

\* C7: in every filled row y of a canvas of height h each channel is
\* top + (bottom - top) * y / max(1, h - 1) cut to an integer, the same in
\* every column, and between the bottom and the top channel; for h = 3 the
\* rows are the top colour, the truncated average and the bottom colour.
C7_Gradient ==
    /\ Len(g_rows) = g_y
    /\ \A r \in 1..Len(g_rows) :
          /\ Len(g_rows[r]) = g_width
          /\ \A x \in 1..g_width :
                /\ g_rows[r][x] = g_rows[r][1]
                /\ \A c \in 1..3 :
                      /\ IsTruncOf(g_rows[r][x][c], top[c], bottom[c], r - 1, Max2(1, g_height - 1))
                      /\ bottom[c] <= g_rows[r][x][c]
                      /\ g_rows[r][x][c] <= top[c]
    /\ (g_height = 3 /\ g_y = 3 /\ g_width >= 1) =>
          /\ g_rows[1][1] = <<15, 20, 35>>
          /\ g_rows[2][1] = [c \in 1..3 |-> (top[c] + bottom[c]) \div 2]
          /\ g_rows[2][1] = <<10, 15, 26>>
          /\ g_rows[3][1] = <<5, 10, 18>>

\* The canvas of height 3, filled.
C7_Witness == g_height = 3 /\ g_y = 3 /\ g_width = 2 /\ g_rows[2][2] = <<10, 15, 26>>

\* C3: with n = max(|x1 - x0|, |y1 - y0|), the loop of draw_line visits at
\* most n + 1 points and stops with exactly n + 1, the first (x0, y0), the
\* last (x1, y1), none twice, neighbours at most 1 apart in each coordinate;
\* the pixels lit are the visited points on the canvas, and from (0,0) to
\* (5,0) they are x = 0..5, y = 0.
C3_Line ==
    lpc # "off" =>
        LET x0 == l_args[1]
            y0 == l_args[2]
            x1 == l_args[3]
            y1 == l_args[4]
            n == Max2(Abs(x1 - x0), Abs(y1 - y0))
        IN  /\ Len(visited) <= n + 1
            /\ lpc = "loop" => Len(visited) <= n
            /\ lpc = "done" => Len(visited) = n + 1 /\ visited[n + 1] = <<y1, x1>>
            /\ Len(visited) >= 1 => visited[1] = <<y0, x0>>
            /\ \A i, j \in 1..Len(visited) : i < j => visited[i] # visited[j]
            /\ \A i \in 1..Len(visited) - 1 :
                  /\ Abs(visited[i + 1][1] - visited[i][1]) <= 1
                  /\ Abs(visited[i + 1][2] - visited[i][2]) <= 1
            /\ l_lit = {visited[i] : i \in 1..Len(visited)} \cap Pixels(LineSide, LineSide)
            /\ (lpc = "done" /\ l_args = <<0, 0, 5, 0>>) =>
                  /\ l_lit = {<<0, x>> : x \in 0..5}
                  /\ visited = [i \in 1..6 |-> <<0, i - 1>>]

\* The line from (0,0) to (5,0), and a steep line drawn right to left and
\* upwards that leaves the canvas.
C3_Witness ==
    \/ lpc = "done" /\ l_args = <<0, 0, 5, 0>> /\ Cardinality(l_lit) = 6
    \/ lpc = "done" /\ l_args = <<2, 3, 0, -2>> /\ Len(visited) = 6

(***************************************************************************)
(* Claims about the downsampler                                            *)
(***************************************************************************)
\* The bit of sub-position (dx, dy): (0,0)->0, (0,1)->1, (0,2)->2,
\* (1,0)->3, (1,1)->4, (1,2)->5, (0,3)->6, (1,3)->7.
BitOfDot(dx, dy) == IF dy = 3 THEN 6 + dx ELSE 3 * dx + dy

\* The canvas pixels of the 2x4 block of cell (x, y), x and y from 0.
Block(x, y) == {p \in Pixels(d_width, d_height) : p[1] \div 4 = y /\ p[2] \div 2 = x}

HasBit(n, b) == (n \div Pow2(b)) % 2 = 1

\* C5: the glyph of cell (x, y) is codepoint 0x2800 + mask with bit b of
\* mask set iff the canvas pixel of the sub-position mapped to b is lit; the
\* cell is a space without foreground iff no pixel of its block is lit; a
\* canvas with only pixel (0,0) lit gives 0x2801 in cell (0,0) and blanks
\* elsewhere.
C5_Glyph ==
    dpc = "done" =>
        /\ Len(cells) = out_height
        /\ \A y \in 1..out_height :
              /\ Len(cells[y]) = out_width
              /\ \A x \in 1..out_width :
                    LET cell == cells[y][x]
                        lit == {p \in Block(x - 1, y - 1) : d_mask[p]}
                    IN  /\ (cell.ch = Blank /\ cell.fg = None) <=> lit = {}
                        /\ lit # {} =>
                              /\ cell.ch - 10240 \in 0..255
                              /\ cell.fg # None
                              /\ \A dx \in 0..1, dy \in 0..3 :
                                    HasBit(cell.ch - 10240, BitOfDot(dx, dy)) <=>
                                        <<4 * (y - 1) + dy, 2 * (x - 1) + dx>> \in lit
                        /\ {p \in Pixels(d_width, d_height) : d_mask[p]} = {<<0, 0>>} =>
                              cell.ch = (IF x = 1 /\ y = 1 THEN 10241 ELSE Blank)

\* A full block with only pixel (0,0) lit, and one with the two pixels of
\* the bottom row lit.
C5_Witness ==
    /\ dpc = "done" /\ d_width = 2 /\ d_height = 4
    /\ \/ {p \in Pixels(d_width, d_height) : d_mask[p]} = {<<0, 0>>} /\ cells[1][1].ch = 10241
       \/ {p \in Pixels(d_width, d_height) : d_mask[p]} = {<<3, 0>>, <<3, 1>>}
          /\ cells[1][1].ch = 10240 + 64 + 128

RECURSIVE SumOver(_, _, _)
\* The sum of channel c of f over the pixels of S.
SumOver(S, f, c) ==
    IF S = {} THEN 0
    ELSE LET p == CHOOSE q \in S : TRUE
         IN  f[p][c] + SumOver(S \ {p}, f, c)

\* v is the floor of the mean of channel c of f over S, in 0..255 and
\* between the least and the greatest of the values averaged.
IsFloorMean(v, S, f, c) ==
    /\ \E sum \in {SumOver(S, f, c)}, n \in {Cardinality(S)} :
          n * v <= sum /\ sum < n * (v + 1)
    /\ v \in 0..255
    /\ \E p \in S : f[p][c] <= v
    /\ \E p \in S : v <= f[p][c]

\* The colour a lit pixel contributes: its foreground, or its background
\* when it has none.
Ink == [p \in Pixels(d_width, d_height) |-> IF d_color[p] # None THEN d_color[p] ELSE d_bg[p]]

\* C10: the background of a cell is the floor of the mean of the
\* backgrounds of the pixels of its block that are on the canvas, (0,0,0)
\* when there are none; with a lit pixel the foreground is the floor of the
\* mean of the lit pixels' colours.
C10_Averages ==
    dpc = "done" =>
        \A y \in 1..out_height, x \in 1..out_width :
            LET cell == cells[y][x]
                inb == Block(x - 1, y - 1)
                lit == {p \in inb : d_mask[p]}
            IN  /\ IF inb = {} THEN cell.bg = <<0, 0, 0>>
                   ELSE \A c \in 1..3 : IsFloorMean(cell.bg[c], inb, d_bg, c)
                /\ lit # {} => \A c \in 1..3 : IsFloorMean(cell.fg[c], lit, Ink, c)

\* A canvas that ends inside the block of cell (0,0), with a lit pixel
\* that has a foreground colour and one that has none.
C10_Witness ==
    /\ dpc = "done" /\ d_width = 1 /\ d_height = 3
    /\ \E p, q \in Pixels(d_width, d_height) :
          d_mask[p] /\ d_mask[q] /\ d_color[p] = None /\ d_color[q] # None
    /\ cells[1][1].fg # None

(***************************************************************************)
(* Claims about the serializer                                             *)
(***************************************************************************)
IsNewline(t) == ~t.esc /\ t.p = <<10>>
IsGlyph(t) == ~t.esc /\ t.p # <<10>>
IsFgSet(t) == t.esc /\ t.p[1] = 38
IsBgSet(t) == t.esc /\ t.p[1] = 48
IsReset(t) == t.esc /\ t.p = <<0>>
IsDefaultFg(t) == t.esc /\ t.p = <<39>>

RECURSIVE Split(_, _)
Split(text, cur) ==
    IF text = << >> THEN <<cur>>
    ELSE IF IsNewline(Head(text)) THEN <<cur>> \o Split(Tail(text), << >>)
    ELSE Split(Tail(text), Append(cur, Head(text)))

\* The lines of a text; the empty text has none.
LinesOf(text) == IF text = << >> THEN << >> ELSE Split(text, << >>)

\* The places of the glyphs in a line, in order.
GlyphPlaces(line) == SelectSeq([i \in 1..Len(line) |-> i], LAMBDA i : IsGlyph(line[i]))

\* The tokens emitted for the k-th cell of a line, its glyph left out.
Segment(line, k) ==
    LET gp == GlyphPlaces(line)
    IN  SubSeq(line, (IF k = 1 THEN 1 ELSE gp[k - 1] + 1), gp[k] - 1)

\* What a terminal makes of an SGR sequence: 0 resets both colours, 39 and
\* 49 reset one, 38;2;r;g;b and 48;2;r;g;b set one.
Sgr_effect(col, p) ==
    CASE p = <<0>> -> [fg |-> None, bg |-> None]
      [] p = <<39>> -> [col EXCEPT !.fg = None]
      [] p = <<49>> -> [col EXCEPT !.bg = None]
      [] Len(p) = 5 /\ p[1] = 38 -> [col EXCEPT !.fg = <<p[3], p[4], p[5]>>]
      [] Len(p) = 5 /\ p[1] = 48 -> [col EXCEPT !.bg = <<p[3], p[4], p[5]>>]
      [] OTHER -> col

RECURSIVE InEffect(_, _)
\* The colours in effect after the tokens, from col.
InEffect(tokens, col) ==
    IF tokens = << >> THEN col
    ELSE InEffect(Tail(tokens), IF Head(tokens).esc THEN Sgr_effect(col, Head(tokens).p) ELSE col)

Count(line, Test(_)) == Cardinality({i \in 1..Len(line) : Test(line[i])})

Uniform(row) == \A k \in 1..Len(row) : row[k].fg = row[1].fg /\ row[k].bg = row[1].bg

Rendered == rpc = "done" /\ Len(LinesOf(frame_text)) = Len(buffer)

\* At no cell is a colour sequence emitted unless that colour differs
\* from the previous cell's, absent before the first cell.
OnlyOnChange(row, line) ==
    \A k \in 1..Len(row) :
        LET seg == Segment(line, k)
            prev == IF k = 1 THEN Cell(Blank, None, None) ELSE row[k - 1]
        IN  /\ (\E i \in 1..Len(seg) : IsFgSet(seg[i]) \/ IsDefaultFg(seg[i]))
                  => row[k].fg # prev.fg
            /\ (\E i \in 1..Len(seg) : IsBgSet(seg[i]) \/ IsReset(seg[i]))
                  => row[k].bg # prev.bg

\* C1, as amended: a row of N >= 1 cells that share one (fg, bg) pair is
\* rendered with one background-set sequence if bg is present and none if it
\* is absent, one foreground-set sequence if fg is present and none if it is
\* absent, N glyphs and one reset, the last token; and in any row a colour
\* sequence is emitted at a cell only when that colour differs from the
\* previous cell's.
C1_Coalescing ==
    Rendered =>
        \A r \in 1..Len(buffer) :
            LET row == buffer[r]
                line == LinesOf(frame_text)[r]
            IN  /\ Count(line, IsGlyph) = Len(row)
                /\ OnlyOnChange(row, line)
                /\ (Len(row) >= 1 /\ Uniform(row)) =>
                      /\ Count(line, IsBgSet) = (IF row[1].bg # None THEN 1 ELSE 0)
                      /\ Count(line, IsFgSet) = (IF row[1].fg # None THEN 1 ELSE 0)
                      /\ Count(line, IsDefaultFg) = 0
                      /\ Count(line, IsReset) = 1
                      /\ line[Len(line)] = reset_colors

\* A row of four cells of one colour pair, and one of four cells without
\* foreground.
C1_Witness ==
    /\ Rendered /\ Len(buffer) = 1 /\ Len(buffer[1]) = 4 /\ Uniform(buffer[1])
    /\ buffer[1][1].bg # None
    /\ \/ buffer[1][1].fg # None /\ Len(frame_text) = 7
       \/ buffer[1][1].fg = None /\ Len(frame_text) = 6

\* C1 as stated: every row of N >= 1 cells that share one (fg, bg) pair is
\* rendered with exactly one background-set sequence, exactly one
\* foreground-set sequence, N glyphs and exactly one reset.
C1_Original ==
    Rendered =>
        \A r \in 1..Len(buffer) :
            LET row == buffer[r]
                line == LinesOf(frame_text)[r]
            IN  /\ OnlyOnChange(row, line)
                /\ (Len(row) >= 1 /\ Uniform(row)) =>
                      /\ Count(line, IsBgSet) = 1
                      /\ Count(line, IsFgSet) = 1
                      /\ Count(line, IsGlyph) = Len(row)
                      /\ Count(line, IsReset) = 1

\* C2: when each glyph is emitted, the colours in effect on the terminal,
\* from the escape sequences of the row so far, are the cell's fg and bg.
C2_Faithful ==
    Rendered =>
        \A r \in 1..Len(buffer) :
            LET row == buffer[r]
                line == LinesOf(frame_text)[r]
            IN  \A k \in 1..Len(row) :
                    LET col == InEffect(SubSeq(line, 1, GlyphPlaces(line)[k] - 1),
                                        [fg |-> None, bg |-> None])
                    IN  col.fg = row[k].fg /\ col.bg = row[k].bg

\* C8: a grid of H rows is rendered as H lines with single newlines between
\* them and none at the end, every line ends with the reset, last_fg and
\* last_bg are absent where each row starts, and the line of a row is what
\* render_frame makes of that row alone.
C8_Rows ==
    rpc = "done" =>
        /\ Len(LinesOf(frame_text)) = Len(buffer)
        /\ Count(frame_text, IsNewline) = Max2(0, Len(buffer) - 1)
        /\ frame_text # << >> => ~IsNewline(frame_text[Len(frame_text)])
        /\ Len(row_starts) = Len(buffer)
        /\ \A r \in 1..Len(buffer) :
              LET line == LinesOf(frame_text)[r]
              IN  /\ line # << >> /\ line[Len(line)] = reset_colors
                  /\ row_starts[r] = <<None, None>>
                  /\ line = render_frame(<<buffer[r]>>).text

\* Two rows, the first ending in a cell with both colours, the second
\* starting with the same colours.
C8_Witness ==
    /\ rpc = "done" /\ Len(buffer) = 2 /\ Len(buffer[1]) = 2
    /\ buffer[1][2].fg # None /\ buffer[1][2].bg # None
    /\ buffer[2][1] = buffer[1][2]
    /\ Count(frame_text, IsNewline) = 1

====
